---- MODULE Spec2Model ----
(***************************************************************************)
(* Model of caser789/go-lru: the Adaptive Replacement Cache of arc.go over *)
(* four bounded recency lists (internal.LRU).                              *)
(*                                                                         *)
(* A bounded list is a sequence of entries, index 1 the most recently      *)
(* touched and index Len the oldest.  The package internal is not part of  *)
(* the sources at hand; its operations follow the specification's section  *)
(* 4.1, and RemoveOldest reports the entry it removes to the eviction      *)
(* callback, as NewARC's callbacks (arc.go:38-48), replace (arc.go:184-191)*)
(* and the specification's sections 4.2 and 8 rely on.                     *)
(***************************************************************************)
EXTENDS Integers, Sequences, FiniteSets, TLC

\* ------------------------------------------------------------------ bounds
MaxSize == 2
NKeys == 3
NVals == 2

Sizes == 1..MaxSize
Keys == 1..NKeys
Vals == 1..NVals
\* the nil interface value: the value of a ghost entry, and of a miss
Nil == 0

\* callers that use one cache at the same time
Threads == {1, 2}
\* the keys they call it with
ConcKeys == {1, 2}

\* the sizes a cache is asked for, the refused ones included
ReqSizes == (-1)..MaxSize

VARIABLES size, p, t1, b1, t2, b2, last, hist, thr, lru, plast, touched

arc == <<size, p, t1, b1, t2, b2>>
\* the Cache of lru.go, the call on it that is returning, and the keys it has
\* been called with, most recently touched first
plainv == <<lru, plast, touched>>
vars == <<size, p, t1, b1, t2, b2, last, hist, thr, lru, plast, touched>>

\* ------------------------------------------------- internal.LRU (section 4.1)
Entry(k, v) == [key |-> k, value |-> v]

KeysOf(l) == {l[i].key : i \in DOMAIN l}

\* NewLRU: an empty list, or an error for a capacity that is not positive
LRU_New(cap) == [list |-> <<>>, err |-> cap <= 0]

LRU_Len(l) == Len(l)

LRU_Contains(l, k) == k \in KeysOf(l)

LRU_Peek(l, k) ==
    IF k \in KeysOf(l)
    THEN [value |-> (CHOOSE e \in {l[i] : i \in DOMAIN l} : e.key = k).value, ok |-> TRUE]
    ELSE [value |-> Nil, ok |-> FALSE]

LRU_Remove(l, k) == SelectSeq(l, LAMBDA e : e.key # k)

\* get: a hit moves the entry to the most-recent position
LRU_Get(l, k) ==
    IF k \in KeysOf(l)
    THEN [list |-> <<Entry(k, LRU_Peek(l, k).value)>> \o LRU_Remove(l, k),
          value |-> LRU_Peek(l, k).value, ok |-> TRUE]
    ELSE [list |-> l, value |-> Nil, ok |-> FALSE]

\* add: update and move to front, or insert at the front and, above capacity,
\* evict the oldest entry; evicted is what the eviction callback is called with
LRU_Add(l, k, v, cap) ==
    IF k \in KeysOf(l)
    THEN [list |-> <<Entry(k, v)>> \o LRU_Remove(l, k), evicted |-> <<>>]
    ELSE LET n == <<Entry(k, v)>> \o l
         IN IF Len(n) > cap
            THEN [list |-> SubSeq(n, 1, Len(n) - 1), evicted |-> <<n[Len(n)]>>]
            ELSE [list |-> n, evicted |-> <<>>]

\* removeOldest: drops the least recently touched entry, if any
LRU_RemoveOldest(l) ==
    IF Len(l) = 0
    THEN [list |-> l, evicted |-> <<>>]
    ELSE [list |-> SubSeq(l, 1, Len(l) - 1), evicted |-> <<l[Len(l)]>>]

LRU_Purge(l) == <<>>

LRU_Keys(l) == [i \in DOMAIN l |-> l[Len(l) + 1 - i].key]

\* ------------------------------------------------------------ ARCCache state
\* c is a record [size, p, t1, b1, t2, b2]
Cache == [size |-> size, p |-> p, t1 |-> t1, b1 |-> b1, t2 |-> t2, b2 |-> b2]

\* the nil *ARCCache
NilARC == [size |-> 0, p |-> 0, t1 |-> <<>>, b1 |-> <<>>, t2 |-> <<>>, b2 |-> <<>>]

\* NewARC: four empty lists of capacity size, p = 0; the error of a NewLRU
\* call is returned with no cache
NewARC(sz) ==
    IF LRU_New(sz).err \/ LRU_New(sz).err \/ LRU_New(sz).err \/ LRU_New(sz).err
    THEN [c |-> NilARC, err |-> TRUE]
    ELSE [c |-> [size |-> sz, p |-> 0, t1 |-> LRU_New(sz).list, b1 |-> LRU_New(sz).list,
                 t2 |-> LRU_New(sz).list, b2 |-> LRU_New(sz).list],
          err |-> FALSE]

\* the eviction callback of t1: b1.Add(k, nil) for every evicted entry
OnEvictT1(c, evicted) ==
    IF evicted = <<>> THEN c
    ELSE [c EXCEPT !.b1 = LRU_Add(c.b1, evicted[1].key, Nil, c.size).list]

\* the eviction callback of t2: b2.Add(k, nil)
OnEvictT2(c, evicted) ==
    IF evicted = <<>> THEN c
    ELSE [c EXCEPT !.b2 = LRU_Add(c.b2, evicted[1].key, Nil, c.size).list]

\* c.t1.Add(key, value), callback included
T1Add(c, k, v) ==
    LET r == LRU_Add(c.t1, k, v, c.size)
    IN OnEvictT1([c EXCEPT !.t1 = r.list], r.evicted)

\* c.t2.Add(key, value), callback included
T2Add(c, k, v) ==
    LET r == LRU_Add(c.t2, k, v, c.size)
    IN OnEvictT2([c EXCEPT !.t2 = r.list], r.evicted)

\* c.t1.RemoveOldest() whose entry is not handed to the callback
T1RemoveOldestSilent(c) == [c EXCEPT !.t1 = LRU_RemoveOldest(c.t1).list]

\* c.t1.RemoveOldest(), callback included
T1RemoveOldest(c) ==
    LET r == LRU_RemoveOldest(c.t1)
    IN OnEvictT1([c EXCEPT !.t1 = r.list], r.evicted)

\* c.t2.RemoveOldest(), callback included
T2RemoveOldest(c) ==
    LET r == LRU_RemoveOldest(c.t2)
    IN OnEvictT2([c EXCEPT !.t2 = r.list], r.evicted)

\* c.b1.RemoveOldest() and c.b2.RemoveOldest(): the ghost lists have no callback
B1RemoveOldest(c) == [c EXCEPT !.b1 = LRU_RemoveOldest(c.b1).list]

B2RemoveOldest(c) == [c EXCEPT !.b2 = LRU_RemoveOldest(c.b2).list]

\* replace with the test on p made non-strict
replaceAtTarget(c, key) ==
    LET t1Len == LRU_Len(c.t1)
    IN IF t1Len > 0 /\ (t1Len >= c.p \/ (t1Len = c.p /\ LRU_Contains(c.b2, key)))
       THEN T1RemoveOldest(c)
       ELSE T2RemoveOldest(c)

\* replace that does not look for the key in B2
replaceIgnoreB2(c, key) ==
    LET t1Len == LRU_Len(c.t1)
    IN IF t1Len > 0 /\ t1Len > c.p
       THEN T1RemoveOldest(c)
       ELSE T2RemoveOldest(c)

\* ------------------------------------------------------- ARCCache operations
\* replace: evict from T1 or from T2, by the learned value of p
replace(c, key) ==
    LET t1Len == LRU_Len(c.t1)
    IN IF t1Len > 0 /\ (t1Len > c.p \/ (t1Len = c.p /\ LRU_Contains(c.b2, key)))
       THEN T1RemoveOldest(c)
       ELSE T2RemoveOldest(c)

\* Get that leaves a T1 hit in T1 as well
GetKeepT1(c, key) ==
    LET r1 == LRU_Peek(c.t1, key)
        r2 == LRU_Get(c.t2, key)
    IN IF r1.ok
       THEN [c |-> T2Add(c, key, r1.value), value |-> r1.value, ok |-> TRUE]
       ELSE IF r2.ok
            THEN [c |-> [c EXCEPT !.t2 = r2.list], value |-> r2.value, ok |-> TRUE]
            ELSE [c |-> c, value |-> Nil, ok |-> FALSE]

\* Get that drops the ghost entry of a key it misses
GetDropGhost(c, key) ==
    LET r1 == LRU_Peek(c.t1, key)
        r2 == LRU_Get(c.t2, key)
    IN IF r1.ok
       THEN [c |-> T2Add([c EXCEPT !.t1 = LRU_Remove(c.t1, key)], key, r1.value),
             value |-> r1.value, ok |-> TRUE]
       ELSE IF r2.ok
            THEN [c |-> [c EXCEPT !.t2 = r2.list], value |-> r2.value, ok |-> TRUE]
            ELSE [c |-> [c EXCEPT !.b1 = LRU_Remove(c.b1, key),
                                  !.b2 = LRU_Remove(c.b2, key)],
                  value |-> Nil, ok |-> FALSE]

\* Get: a hit in T1 is moved to T2; a hit in T2 is refreshed; else a miss
Get(c, key) ==
    LET r1 == LRU_Peek(c.t1, key)
        r2 == LRU_Get(c.t2, key)
    IN IF r1.ok
       THEN [c |-> T2Add([c EXCEPT !.t1 = LRU_Remove(c.t1, key)], key, r1.value),
             value |-> r1.value, ok |-> TRUE]
       ELSE IF r2.ok
            THEN [c |-> [c EXCEPT !.t2 = r2.list], value |-> r2.value, ok |-> TRUE]
            ELSE [c |-> c, value |-> Nil, ok |-> FALSE]

\* Add, key in T1: promote to T2 with the new value
AddT1Hit(c, key, value) == T2Add([c EXCEPT !.t1 = LRU_Remove(c.t1, key)], key, value)

\* Add of a key in T2 that refreshes the entry and keeps its old value
AddT2HitKeepValue(c, key, value) == T2Add(c, key, LRU_Peek(c.t2, key).value)

\* Add, key in T2: update in T2
AddT2Hit(c, key, value) == T2Add(c, key, value)

\* Add of a key in B1 that does not adapt p
AddB1HitNoAdapt(c, key, value) ==
    LET c2 == replace(c, key)
        c3 == [c2 EXCEPT !.b1 = LRU_Remove(c2.b1, key)]
    IN T2Add(c3, key, value)

\* AdaptUp that does not stop at size
AdaptUpNoCap(c) ==
    LET b1Len == LRU_Len(c.b1)
        b2Len == LRU_Len(c.b2)
        delta == IF b2Len > b1Len THEN b2Len \div b1Len ELSE 1
    IN [c EXCEPT !.p = c.p + delta]

\* a hit in B1: T1 is too small, raise p
AdaptUp(c) ==
    LET b1Len == LRU_Len(c.b1)
        b2Len == LRU_Len(c.b2)
        delta == IF b2Len > b1Len THEN b2Len \div b1Len ELSE 1
    IN [c EXCEPT !.p = IF c.p + delta >= c.size THEN c.size ELSE c.p + delta]

\* AdaptDown that does not stop at 0
AdaptDownNoFloor(c) ==
    LET b1Len == LRU_Len(c.b1)
        b2Len == LRU_Len(c.b2)
        delta == IF b1Len > b2Len THEN b1Len \div b2Len ELSE 1
    IN [c EXCEPT !.p = c.p - delta]

\* a hit in B2: T2 is too small, lower p
AdaptDown(c) ==
    LET b1Len == LRU_Len(c.b1)
        b2Len == LRU_Len(c.b2)
        delta == IF b1Len > b2Len THEN b1Len \div b2Len ELSE 1
    IN [c EXCEPT !.p = IF delta >= c.p THEN 0 ELSE c.p - delta]

\* Add, key in B1: raise p, replace, drop the ghost, add to T2
AddB1Hit(c, key, value) ==
    LET c1 == AdaptUp(c)
        c2 == replace(c1, key)
        c3 == [c2 EXCEPT !.b1 = LRU_Remove(c2.b1, key)]
    IN T2Add(c3, key, value)

\* Add, key in B2: lower p, replace, drop the ghost, add to T2
AddB2Hit(c, key, value) ==
    LET c1 == AdaptDown(c)
        c2 == replace(c1, key)
        c3 == [c2 EXCEPT !.b2 = LRU_Remove(c2.b2, key)]
    IN T2Add(c3, key, value)

\* Add, key in no list: which entries have to go before the key is added
Evictions(c) ==
    LET t1Len == LRU_Len(c.t1)
        b1Len == LRU_Len(c.b1)
        t2Len == LRU_Len(c.t2)
        b2Len == LRU_Len(c.b2)
        total == t1Len + t2Len + b1Len + b2Len
    IN IF t1Len + b1Len = c.size
       THEN IF t1Len = c.size THEN "t1_oldest" ELSE "b1_oldest"
       ELSE IF total >= c.size
            THEN IF total = 2 * c.size THEN "b2_oldest" ELSE "replace"
            ELSE "none"

\* Add of a key in no list that adds to T1 first and makes room afterwards
AddNewInsertFirst(c, key, value) ==
    LET plan == Evictions(c)
        c1 == T1Add(c, key, value)
    IN CASE plan = "t1_oldest" -> T1RemoveOldest(c1)
         [] plan = "b1_oldest" -> replace(B1RemoveOldest(c1), key)
         [] plan = "b2_oldest" -> replace(B2RemoveOldest(c1), key)
         [] plan = "replace" -> replace(c1, key)
         [] plan = "none" -> c1

\* Add, key in no list: make room, then add to T1
AddNew(c, key, value) ==
    LET plan == Evictions(c)
        c1 == CASE plan = "t1_oldest" -> T1RemoveOldest(c)
                [] plan = "b1_oldest" -> replace(B1RemoveOldest(c), key)
                [] plan = "b2_oldest" -> replace(B2RemoveOldest(c), key)
                [] plan = "replace" -> replace(c, key)
                [] plan = "none" -> c
    IN T1Add(c1, key, value)

Add(c, key, value) ==
    IF LRU_Contains(c.t1, key) THEN AddT1Hit(c, key, value)
    ELSE IF LRU_Contains(c.t2, key) THEN AddT2Hit(c, key, value)
    ELSE IF LRU_Contains(c.b1, key) THEN AddB1Hit(c, key, value)
    ELSE IF LRU_Contains(c.b2, key) THEN AddB2Hit(c, key, value)
    ELSE AddNew(c, key, value)

ArcLen(c) == LRU_Len(c.t1) + LRU_Len(c.t2)

ArcKeys(c) == LRU_Keys(c.t1) \o LRU_Keys(c.t2)

\* Remove that leaves the ghost lists alone
RemoveLiveOnly(c, key) ==
    [c EXCEPT !.t1 = LRU_Remove(c.t1, key), !.t2 = LRU_Remove(c.t2, key)]

Remove(c, key) ==
    [c EXCEPT !.t1 = LRU_Remove(c.t1, key), !.t2 = LRU_Remove(c.t2, key),
              !.b1 = LRU_Remove(c.b1, key), !.b2 = LRU_Remove(c.b2, key)]

\* Purge that clears the two live lists only
PurgeLiveOnly(c) == [c EXCEPT !.t1 = LRU_Purge(c.t1), !.t2 = LRU_Purge(c.t2)]

Purge(c) ==
    [c EXCEPT !.t1 = LRU_Purge(c.t1), !.t2 = LRU_Purge(c.t2),
              !.b1 = LRU_Purge(c.b1), !.b2 = LRU_Purge(c.b2)]

Contains(c, key) ==
    [c |-> c, ok |-> LRU_Contains(c.t1, key) \/ LRU_Contains(c.t2, key)]

\* Peek that promotes like Get
PeekPromote(c, key) == Get(c, key)

Peek(c, key) ==
    LET r1 == LRU_Peek(c.t1, key)
        r2 == LRU_Peek(c.t2, key)
    IN IF r1.ok THEN [c |-> c, value |-> r1.value, ok |-> TRUE]
       ELSE [c |-> c, value |-> r2.value, ok |-> r2.ok]

\* ------------------------------------------------------- Cache (lru.go)
\* c is a record [size, evictList, items]: evictList is the list of entries,
\* front first, and items the keys of the map; the element the map holds for a
\* key is the element of that key in evictList
entry(k, v) == [key |-> k, value |-> v]

\* the nil *Cache
NilCache == [size |-> 0, evictList |-> <<>>, items |-> {}]

\* container/list, as lru.go uses it
ListKeys(l) == {l[i].key : i \in DOMAIN l}

PushFront(l, e) == <<e>> \o l

ListRemove(l, k) == SelectSeq(l, LAMBDA e : e.key # k)

Back(l) == l[Len(l)]

ValueOf(l, k) ==
    IF k \in ListKeys(l)
    THEN (CHOOSE e \in {l[i] : i \in DOMAIN l} : e.key = k).value
    ELSE Nil

\* MoveToFront of an element that is no longer in the list does nothing
MoveToFront(l, k) ==
    IF k \in ListKeys(l) THEN <<entry(k, ValueOf(l, k))>> \o ListRemove(l, k) ELSE l

\* ent.Value.(*entry).value = value
SetValue(l, k, v) == [i \in DOMAIN l |-> IF l[i].key = k THEN entry(k, v) ELSE l[i]]

\* New that refuses negative sizes only
NewAcceptZero(sz) ==
    IF sz < 0
    THEN [c |-> NilCache, err |-> TRUE]
    ELSE [c |-> [size |-> sz, evictList |-> <<>>, items |-> {}], err |-> FALSE]

New(sz) ==
    IF sz <= 0
    THEN [c |-> NilCache, err |-> TRUE]
    ELSE [c |-> [size |-> sz, evictList |-> <<>>, items |-> {}], err |-> FALSE]

\* removeElement that leaves the key in the map
removeElementKeepIndex(c, e) == [c EXCEPT !.evictList = ListRemove(c.evictList, e.key)]

removeElement(c, e) ==
    [c EXCEPT !.evictList = ListRemove(c.evictList, e.key), !.items = c.items \ {e.key}]

removeOldest(c) ==
    IF c.evictList # <<>> THEN removeElement(c, Back(c.evictList)) ELSE c

Cache_Add(c, key, value) ==
    IF key \in c.items
    THEN [c EXCEPT !.evictList = SetValue(MoveToFront(c.evictList, key), key, value)]
    ELSE LET c1 == [c EXCEPT !.evictList = PushFront(c.evictList, entry(key, value)),
                             !.items = c.items \cup {key}]
         IN IF Len(c1.evictList) > c1.size THEN removeOldest(c1) ELSE c1

Cache_Len(c) == Len(c.evictList)

\* Get that returns the value of a hit and leaves the entry where it is
Cache_GetNoPromote(c, key) ==
    IF key \in c.items
    THEN [c |-> c, value |-> ValueOf(c.evictList, key), ok |-> TRUE]
    ELSE [c |-> c, value |-> Nil, ok |-> FALSE]

Cache_Get(c, key) ==
    IF key \in c.items
    THEN [c |-> [c EXCEPT !.evictList = MoveToFront(c.evictList, key)],
          value |-> ValueOf(c.evictList, key), ok |-> TRUE]
    ELSE [c |-> c, value |-> Nil, ok |-> FALSE]

\* ------------------------------------------------------------ the state machine
\* hist: the mutating calls made since NewARC, kept while they are a prefix of
\* one of the scenarios of section 8; last: the call that is returning, the list
\* its key was in when it was made, and what it returns.  The cache has one
\* caller here: a call is made once the call before it has returned.
Call(op, k, v) == <<op, k, v>>

IsPrefix(s, t) == Len(s) <= Len(t) /\ s = SubSeq(t, 1, Len(s))

\* the end-to-end scenario of section 8, on a cache of capacity 2
EndToEnd ==
    <<Call("Add", 1, 1), Call("Add", 2, 2), Call("Get", 1, Nil), Call("Add", 3, 1),
      Call("Add", 2, 1)>>

\* the ghost-hit scenario of section 8: sz+1 Adds of distinct keys, then an Add
\* of the first key again, then a Get of it
IsGhostHit(h, sz) ==
    /\ Len(h) <= sz + 3
    /\ \A i \in DOMAIN h :
          /\ i <= sz + 1 => h[i][1] = "Add" /\ \A j \in 1..(i - 1) : h[j][2] # h[i][2]
          /\ i = sz + 2 => h[i][1] = "Add" /\ h[i][2] = h[1][2]
          /\ i = sz + 3 => h[i][1] = "Get" /\ h[i][2] = h[1][2]

\* the promotion scenario of section 8: Add(K, V1), Get(K), Add(K, V2), Get(K)
IsPromotion(h) ==
    /\ Len(h) <= 4
    /\ \A i \in DOMAIN h :
          /\ h[i][2] = h[1][2]
          /\ h[i][1] = (IF i \in {1, 3} THEN "Add" ELSE "Get")

\* two B1 ghost hits raise p to 2, a B2 ghost hit then lowers it to |T1| = 1:
\* on a cache of capacity 2
TieBreak ==
    <<Call("Add", 1, 1), Call("Add", 2, 1), Call("Add", 3, 1), Call("Add", 1, 1),
      Call("Add", 2, 1), Call("Add", 1, 1)>>

OnScript(h, sz) ==
    \/ sz = 2 /\ IsPrefix(h, EndToEnd)
    \/ IsGhostHit(h, sz)
    \/ IsPromotion(h)
    \/ sz = 2 /\ IsPrefix(h, TieBreak)

Record(call) ==
    IF hist.on /\ OnScript(Append(hist.ops, call), size)
    THEN [on |-> TRUE, ops |-> Append(hist.ops, call)]
    ELSE [on |-> FALSE, ops |-> <<>>]

Store(c) ==
    /\ size' = c.size
    /\ p' = c.p
    /\ t1' = c.t1
    /\ b1' = c.b1
    /\ t2' = c.t2
    /\ b2' = c.b2

\* the list a key is found in, probed in the order t1, t2, b1, b2
Where(c, k) ==
    IF LRU_Contains(c.t1, k) THEN "t1"
    ELSE IF LRU_Contains(c.t2, k) THEN "t2"
    ELSE IF LRU_Contains(c.b1, k) THEN "b1"
    ELSE IF LRU_Contains(c.b2, k) THEN "b2"
    ELSE "none"

\* where: the list the key was in when the call was made
Result(op, k, v, ok, ret) ==
    [op |-> op, key |-> k, value |-> v, ok |-> ok, ret |-> ret, where |-> Where(Cache, k)]

\* no call on the Cache of lru.go is returning
NoCall == [op |-> "none", key |-> 0, value |-> Nil, ok |-> TRUE, ret |-> Nil, had |-> FALSE]

\* a caller that is in no method of the cache
Idle == [pc |-> "idle", key |-> 0, value |-> Nil, after |-> "idle"]

Init ==
    /\ \E sz \in Sizes :
          /\ size = sz
          /\ last = [op |-> "NewARC", key |-> sz, value |-> Nil, ok |-> TRUE,
                     ret |-> Nil, where |-> "none"]
    /\ p = 0
    /\ t1 = <<>>
    /\ b1 = <<>>
    /\ t2 = <<>>
    /\ b2 = <<>>
    /\ hist = [on |-> TRUE, ops |-> <<>>]
    /\ thr = [t \in Threads |-> Idle]
    /\ lru = NilCache
    /\ plast = NoCall
    /\ touched = <<>>

\* no call is returning
Returned == last.op = "none"

DoAdd ==
    \E k \in Keys, v \in Vals :
       /\ Returned
       /\ Store(Add(Cache, k, v))
       /\ last' = Result("Add", k, v, TRUE, Nil)
       /\ hist' = Record(Call("Add", k, v))
       /\ UNCHANGED <<thr, plainv>>

DoGet ==
    \E k \in Keys :
       LET r == Get(Cache, k)
       IN /\ Returned
          /\ Store(r.c)
          /\ last' = Result("Get", k, Nil, r.ok, r.value)
          /\ hist' = Record(Call("Get", k, Nil))
          /\ UNCHANGED <<thr, plainv>>

DoRemove ==
    \E k \in Keys :
       /\ Returned
       /\ Store(Remove(Cache, k))
       /\ last' = Result("Remove", k, Nil, TRUE, Nil)
       /\ hist' = Record(Call("Remove", k, Nil))
       /\ UNCHANGED <<thr, plainv>>

DoPurge ==
    /\ Returned
    /\ Store(Purge(Cache))
    /\ last' = Result("Purge", 0, Nil, TRUE, Nil)
    /\ hist' = Record(Call("Purge", 0, Nil))
    /\ UNCHANGED <<thr, plainv>>

DoContains ==
    \E k \in Keys :
       LET r == Contains(Cache, k)
       IN /\ Returned
          /\ Store(r.c)
          /\ last' = Result("Contains", k, Nil, r.ok, Nil)
          /\ UNCHANGED <<hist, thr, plainv>>

DoPeek ==
    \E k \in Keys :
       LET r == Peek(Cache, k)
       IN /\ Returned
          /\ Store(r.c)
          /\ last' = Result("Peek", k, Nil, r.ok, r.value)
          /\ UNCHANGED <<hist, thr, plainv>>

DoLen ==
    /\ Returned
    /\ last' = Result("Len", 0, Nil, TRUE, ArcLen(Cache))
    /\ UNCHANGED <<arc, hist, thr, plainv>>

DoKeys ==
    /\ Returned
    /\ last' = Result("Keys", 0, Nil, TRUE, ArcKeys(Cache))
    /\ UNCHANGED <<arc, hist, thr, plainv>>

\* the caller takes the result of its call
Return ==
    /\ ~Returned
    /\ last' = [op |-> "none", key |-> 0, value |-> Nil, ok |-> TRUE, ret |-> Nil,
                where |-> "none"]
    /\ UNCHANGED <<arc, hist, thr, plainv>>

Next ==
    DoAdd \/ DoGet \/ DoRemove \/ DoPurge \/ DoContains \/ DoPeek \/ DoLen \/ DoKeys
       \/ Return

Spec == Init /\ [][Next]_vars

\* ------------------------------------------------------- concurrent callers
\* No method of ARCCache takes c.lock, so the calls that one method makes on
\* the four lists interleave with those of a method running in another
\* goroutine.  A step below is one such call together with the reads before
\* it; pc names the call a caller makes next and after the call that follows
\* its replace.
At(t, pc) == thr[t].pc = pc

Goto(t, pc) == thr' = [thr EXCEPT ![t].pc = pc]

CallAdd(t) ==
    /\ At(t, "idle")
    /\ \E k \in ConcKeys, v \in Vals :
          thr' = [thr EXCEPT ![t] = [pc |-> "add_probe", key |-> k, value |-> v,
                                     after |-> "idle"]]
    /\ UNCHANGED <<arc, last, hist, plainv>>

\* the probes of Add, the adaptation of p on a ghost hit, and the lengths read
\* for a new key
AddProbe(t) ==
    /\ At(t, "add_probe")
    /\ LET where == Where(Cache, thr[t].key)
           plan == Evictions(Cache)
       IN CASE where = "t1" -> Goto(t, "add_t1_remove") /\ UNCHANGED arc
            [] where = "t2" -> Goto(t, "add_t2_add") /\ UNCHANGED arc
            [] where = "b1" ->
                 /\ Store(AdaptUp(Cache))
                 /\ thr' = [thr EXCEPT ![t].pc = "add_replace", ![t].after = "add_b1_remove"]
            [] where = "b2" ->
                 /\ Store(AdaptDown(Cache))
                 /\ thr' = [thr EXCEPT ![t].pc = "add_replace", ![t].after = "add_b2_remove"]
            [] where = "none" ->
                 /\ UNCHANGED arc
                 /\ thr' = [thr EXCEPT
                       ![t].pc = CASE plan = "t1_oldest" -> "add_t1_oldest"
                                   [] plan = "b1_oldest" -> "add_b1_oldest"
                                   [] plan = "b2_oldest" -> "add_b2_oldest"
                                   [] plan = "replace" -> "add_replace"
                                   [] plan = "none" -> "add_t1_add",
                       ![t].after = "add_t1_add"]
    /\ UNCHANGED <<last, hist, plainv>>

AddT1Remove(t) ==
    /\ At(t, "add_t1_remove")
    /\ Store([Cache EXCEPT !.t1 = LRU_Remove(t1, thr[t].key)])
    /\ Goto(t, "add_t2_add")
    /\ UNCHANGED <<last, hist, plainv>>

AddT2Add(t) ==
    /\ At(t, "add_t2_add")
    /\ Store(T2Add(Cache, thr[t].key, thr[t].value))
    /\ Goto(t, "idle")
    /\ UNCHANGED <<last, hist, plainv>>

AddReplace(t) ==
    /\ At(t, "add_replace")
    /\ Store(replace(Cache, thr[t].key))
    /\ Goto(t, thr[t].after)
    /\ UNCHANGED <<last, hist, plainv>>

AddB1Remove(t) ==
    /\ At(t, "add_b1_remove")
    /\ Store([Cache EXCEPT !.b1 = LRU_Remove(b1, thr[t].key)])
    /\ Goto(t, "add_t2_add")
    /\ UNCHANGED <<last, hist, plainv>>

AddB2Remove(t) ==
    /\ At(t, "add_b2_remove")
    /\ Store([Cache EXCEPT !.b2 = LRU_Remove(b2, thr[t].key)])
    /\ Goto(t, "add_t2_add")
    /\ UNCHANGED <<last, hist, plainv>>

AddT1Oldest(t) ==
    /\ At(t, "add_t1_oldest")
    /\ Store(T1RemoveOldest(Cache))
    /\ Goto(t, "add_t1_add")
    /\ UNCHANGED <<last, hist, plainv>>

AddB1Oldest(t) ==
    /\ At(t, "add_b1_oldest")
    /\ Store(B1RemoveOldest(Cache))
    /\ Goto(t, "add_replace")
    /\ UNCHANGED <<last, hist, plainv>>

AddB2Oldest(t) ==
    /\ At(t, "add_b2_oldest")
    /\ Store(B2RemoveOldest(Cache))
    /\ Goto(t, "add_replace")
    /\ UNCHANGED <<last, hist, plainv>>

AddT1Add(t) ==
    /\ At(t, "add_t1_add")
    /\ Store(T1Add(Cache, thr[t].key, thr[t].value))
    /\ Goto(t, "idle")
    /\ UNCHANGED <<last, hist, plainv>>

CallGet(t) ==
    /\ At(t, "idle")
    /\ \E k \in ConcKeys :
          thr' = [thr EXCEPT ![t] = [pc |-> "get_probe", key |-> k, value |-> Nil,
                                     after |-> "idle"]]
    /\ UNCHANGED <<arc, last, hist, plainv>>

\* c.t1.Peek(key) and, on a miss, c.t2.Get(key)
GetProbe(t) ==
    /\ At(t, "get_probe")
    /\ LET r1 == LRU_Peek(t1, thr[t].key)
           r2 == LRU_Get(t2, thr[t].key)
       IN IF r1.ok
          THEN /\ thr' = [thr EXCEPT ![t].pc = "get_t1_remove", ![t].value = r1.value]
               /\ UNCHANGED arc
          ELSE /\ Store([Cache EXCEPT !.t2 = r2.list])
               /\ Goto(t, "idle")
    /\ UNCHANGED <<last, hist, plainv>>

GetT1Remove(t) ==
    /\ At(t, "get_t1_remove")
    /\ Store([Cache EXCEPT !.t1 = LRU_Remove(t1, thr[t].key)])
    /\ Goto(t, "get_t2_add")
    /\ UNCHANGED <<last, hist, plainv>>

GetT2Add(t) ==
    /\ At(t, "get_t2_add")
    /\ Store(T2Add(Cache, thr[t].key, thr[t].value))
    /\ Goto(t, "idle")
    /\ UNCHANGED <<last, hist, plainv>>

NextConc ==
    \E t \in Threads :
       \/ CallAdd(t)
       \/ AddProbe(t)
       \/ AddT1Remove(t)
       \/ AddT2Add(t)
       \/ AddReplace(t)
       \/ AddB1Remove(t)
       \/ AddB2Remove(t)
       \/ AddT1Oldest(t)
       \/ AddB1Oldest(t)
       \/ AddB2Oldest(t)
       \/ AddT1Add(t)
       \/ CallGet(t)
       \/ GetProbe(t)
       \/ GetT1Remove(t)
       \/ GetT2Add(t)

SpecConc == Init /\ [][NextConc]_vars


\* ------------------------------------------- construction, and Cache (lru.go)
\* Both constructors are called with sizes they refuse as well; the Cache that
\* New returns is then used by one caller (its methods hold c.lock from the
\* first statement to the last).  had: the key was in items when the call was
\* made.
NoLast ==
    [op |-> "none", key |-> 0, value |-> Nil, ok |-> TRUE, ret |-> Nil, where |-> "none"]

InitLRU ==
    /\ size = NilARC.size
    /\ p = NilARC.p
    /\ t1 = NilARC.t1
    /\ b1 = NilARC.b1
    /\ t2 = NilARC.t2
    /\ b2 = NilARC.b2
    /\ last = NoLast
    /\ hist = [on |-> FALSE, ops |-> <<>>]
    /\ thr = [t \in Threads |-> Idle]
    /\ lru = NilCache
    /\ plast = NoCall
    /\ touched = <<>>

PlainResult(op, k, v, ok, ret) ==
    [op |-> op, key |-> k, value |-> v, ok |-> ok, ret |-> ret, had |-> k \in lru.items]

Touch(k) == <<k>> \o SelectSeq(touched, LAMBDA j : j # k)

DoNewARC ==
    \E sz \in ReqSizes :
       LET r == NewARC(sz)
       IN /\ Cache = NilARC
          /\ Store(r.c)
          /\ last' = [op |-> "NewARC", key |-> sz, value |-> Nil, ok |-> ~r.err,
                      ret |-> Nil, where |-> "none"]
          /\ UNCHANGED <<hist, thr, plainv>>

DoNew ==
    \E sz \in ReqSizes :
       LET r == New(sz)
       IN /\ lru = NilCache
          /\ lru' = r.c
          /\ plast' = [op |-> "New", key |-> sz, value |-> Nil, ok |-> ~r.err,
                       ret |-> Nil, had |-> FALSE]
          /\ UNCHANGED <<arc, last, hist, thr, touched>>

DoCacheAdd ==
    \E k \in Keys, v \in Vals :
       /\ lru # NilCache
       /\ lru' = Cache_Add(lru, k, v)
       /\ plast' = PlainResult("Add", k, v, TRUE, Nil)
       /\ touched' = Touch(k)
       /\ UNCHANGED <<arc, last, hist, thr>>

DoCacheGet ==
    \E k \in Keys :
       LET r == Cache_Get(lru, k)
       IN /\ lru # NilCache
          /\ lru' = r.c
          /\ plast' = PlainResult("Get", k, Nil, r.ok, r.value)
          /\ touched' = (IF r.ok THEN Touch(k) ELSE touched)
          /\ UNCHANGED <<arc, last, hist, thr>>

DoCacheLen ==
    /\ lru # NilCache
    /\ plast' = PlainResult("Len", 0, Nil, TRUE, Cache_Len(lru))
    /\ UNCHANGED <<arc, last, hist, thr, lru, touched>>

NextLRU == DoNewARC \/ DoNew \/ DoCacheAdd \/ DoCacheGet \/ DoCacheLen

SpecLRU == InitLRU /\ [][NextLRU]_vars

\* ------------------------------------------------------------------ claims
\* the lists a key is a member of
ListsOf(c, k) ==
    (IF LRU_Contains(c.t1, k) THEN {"t1"} ELSE {}) \cup
    (IF LRU_Contains(c.t2, k) THEN {"t2"} ELSE {}) \cup
    (IF LRU_Contains(c.b1, k) THEN {"b1"} ELSE {}) \cup
    (IF LRU_Contains(c.b2, k) THEN {"b2"} ELSE {})

\* C1: in every state reachable by Add, Get, Remove and Purge, a key is a
\* member of at most one of T1, T2, B1, B2.
C1_Exclusive == \A k \in Keys : Cardinality(ListsOf(Cache, k)) <= 1

\* a Get has just promoted its key from T1 to T2 while both ghost lists hold keys
C1_Witness ==
    /\ last.op = "Get" /\ last.where = "t1"
    /\ LRU_Contains(t2, last.key)
    /\ b1 # <<>> /\ b2 # <<>>

\* C2: after every Add call, Len() = |T1| + |T2| <= size.
C2_LenBound == last.op = "Add" => ArcLen(Cache) <= size

\* an Add has returned with more live entries than the capacity
C2_Witness == last.op = "Add" /\ ArcLen(Cache) > size

\* C3: in every reachable state |T1| + |B1| <= size, also after an Add of a new
\* key that found |T1| = size, evicted T1's oldest entry into B1 and inserted
\* the new key into T1.
C3_T1B1Bound == LRU_Len(t1) + LRU_Len(b1) <= size

\* an Add of a new key has left T1 full and the evicted key in B1
C3_Witness ==
    /\ last.op = "Add" /\ last.where = "none"
    /\ LRU_Len(t1) = size /\ LRU_Len(b1) > 0

\* C4: in every reachable state |T1| + |T2| + |B1| + |B2| <= 2 * size.
C4_TotalBound == LRU_Len(t1) + LRU_Len(t2) + LRU_Len(b1) + LRU_Len(b2) <= 2 * size

\* the four lists together track more than 2 * size keys
C4_Witness == LRU_Len(t1) + LRU_Len(t2) + LRU_Len(b1) + LRU_Len(b2) > 2 * size

\* C5: ARCCache is thread-safe: every public operation runs under one exclusive
\* lock from start to end, so no two callers are inside an operation at once,
\* and the exclusivity invariant holds whenever concurrent calls have returned.
C5_ThreadSafe ==
    /\ Cardinality({t \in Threads : ~At(t, "idle")}) <= 1
    /\ (\A t \in Threads : At(t, "idle")) => C1_Exclusive

\* all callers have returned and a key is in T1 and in T2
C5_Witness ==
    /\ \A t \in Threads : At(t, "idle")
    /\ \E k \in Keys : {"t1", "t2"} \subseteq ListsOf(Cache, k)

\* C6: after size+1 Adds of distinct keys to a fresh cache the first key is in
\* B1 and not live; after it is added again p > 0; a Get of it then reports
\* found, with the value it was added again with.
C6_GhostHit ==
    (hist.on /\ IsGhostHit(hist.ops, size)) =>
       LET n == Len(hist.ops)
       IN /\ n = size + 1 =>
               /\ LRU_Contains(b1, hist.ops[1][2])
               /\ ~Contains(Cache, hist.ops[1][2]).ok
          /\ n = size + 2 => p > 0
          /\ (n = size + 3 /\ last.op = "Get") =>
               /\ last.ok
               /\ last.ret = hist.ops[size + 2][3]

\* the scenario has run to its last Get on the largest capacity, the key having
\* been added again with another value than at first
C6_Witness ==
    /\ hist.on /\ IsGhostHit(hist.ops, size)
    /\ size = MaxSize
    /\ Len(hist.ops) = size + 3
    /\ last.op = "Get"
    /\ hist.ops[size + 2][3] # hist.ops[1][3]

\* C7: on a cache of capacity 2, Add(1,a), Add(2,b), Get(1) returns (a, found);
\* after Add(3,c) T1 = {3}, T2 = {1}, B1 = {2}, B2 = {}, Contains(2) is false
\* and Get(2) misses; Add(2,z) then sets p to 1, evicts key 1 from T2 and ends
\* with T1 = {3}, T2 = {2:z}, Len() = 2.
C7_EndToEnd ==
    (size = 2 /\ hist.on) =>
       /\ (hist.ops = SubSeq(EndToEnd, 1, 3) /\ last.op = "Get") =>
            /\ last.ok
            /\ last.ret = EndToEnd[1][3]
       /\ hist.ops = SubSeq(EndToEnd, 1, 4) =>
            /\ KeysOf(t1) = {3} /\ KeysOf(t2) = {1}
            /\ KeysOf(b1) = {2} /\ KeysOf(b2) = {}
            /\ ~Contains(Cache, 2).ok
            /\ ~Get(Cache, 2).ok
       /\ hist.ops = EndToEnd =>
            /\ p = 1
            /\ t1 = <<Entry(3, EndToEnd[4][3])>>
            /\ t2 = <<Entry(2, EndToEnd[5][3])>>
            /\ ~LRU_Contains(t2, 1)
            /\ ArcLen(Cache) = 2

\* the whole scenario has run
C7_Witness == size = 2 /\ hist.on /\ hist.ops = EndToEnd

\* C8: a Get that hits K in T1 returns K's stored value and leaves K in T2 and
\* not in T1; an Add(K, V2) of a key in T2 keeps K in T2 with value V2, and the
\* next Get(K) returns (V2, found).
C8_Promotion ==
    [][/\ (last'.op = "Get" /\ last'.where = "t1") =>
            /\ last'.ok
            /\ last'.ret = LRU_Peek(t1, last'.key).value
            /\ LRU_Peek(t2', last'.key) = [value |-> last'.ret, ok |-> TRUE]
            /\ ~LRU_Contains(t1', last'.key)
       /\ (last'.op = "Add" /\ last'.where = "t2") =>
            /\ LRU_Peek(t2', last'.key) = [value |-> last'.value, ok |-> TRUE]
            /\ ~LRU_Contains(t1', last'.key)
            /\ Get(Cache', last'.key).ok
            /\ Get(Cache', last'.key).value = last'.value]_vars

\* a Get has hit in T2 the value that an Add wrote there
C8_Witness ==
    /\ last.op = "Get" /\ last.where = "t2" /\ last.ok
    /\ hist.on /\ IsPromotion(hist.ops) /\ Len(hist.ops) = 4
    /\ hist.ops[3][3] # hist.ops[1][3]
    /\ last.ret = hist.ops[3][3]

\* C9: Peek and Contains leave the membership and order of T1, T2, B1, B2 and
\* the value of p unchanged.
C9_ReadOnly == [][last'.op \in {"Peek", "Contains"} => arc' = arc]_vars

\* a Peek has found the oldest entry of T1, which is still the oldest
C9_Witness ==
    /\ last.op = "Peek" /\ last.ok /\ last.where = "t1"
    /\ LRU_Len(t1) >= 2
    /\ t1[LRU_Len(t1)].key = last.key

\* C10: a Get of a key in B1, in B2 or in no list returns not-found and leaves
\* the four lists and p unchanged.
C10_GhostMiss ==
    [][(last'.op = "Get" /\ last'.where \in {"b1", "b2", "none"}) =>
          /\ ~last'.ok
          /\ last'.ret = Nil
          /\ arc' = arc]_vars

\* a Get has missed a key that B2 remembers
C10_Witness ==
    /\ last.op = "Get" /\ last.where = "b2" /\ ~last.ok
    /\ LRU_Contains(b2, last.key)

\* C11: Purge, from any state, leaves T1, T2, B1 and B2 empty, so that Len() is
\* 0 and Contains(k) is false for every key, and leaves p and the capacity as
\* they were.
C11_Purge ==
    [][last'.op = "Purge" =>
          /\ t1' = <<>> /\ t2' = <<>> /\ b1' = <<>> /\ b2' = <<>>
          /\ ArcLen(Cache') = 0
          /\ \A k \in Keys : ~Contains(Cache', k).ok
          /\ p' = p
          /\ size' = size]_vars

\* a Purge of a cache that had learned a non-zero p has returned
C11_Witness == last.op = "Purge" /\ p > 0 /\ ArcLen(Cache) = 0 /\ b1 = <<>> /\ b2 = <<>>

\* C12: Remove(key) leaves the key in none of T1, T2, B1, B2 (so it is put in
\* no ghost list), leaves the membership and the value of every other key, p and
\* the capacity as they were, and is idempotent: a second Remove of the key,
\* or a Remove of a key that is in no list, changes nothing.
C12_Remove ==
    [][last'.op = "Remove" =>
          LET k == last'.key
          IN /\ ListsOf(Cache', k) = {}
             /\ \A j \in Keys \ {k} :
                   /\ ListsOf(Cache', j) = ListsOf(Cache, j)
                   /\ Peek(Cache', j).value = Peek(Cache, j).value
             /\ p' = p
             /\ size' = size
             /\ Remove(Cache', k) = Cache'
             /\ (last'.where = "none" => arc' = arc)]_vars

\* a Remove of a ghost key has returned, with other keys live
C12_Witness == last.op = "Remove" /\ last.where = "b1" /\ ArcLen(Cache) > 0 /\ p > 0

\* C13: New and NewARC, called with a size <= 0, return an error and no cache;
\* called with a size > 0 they return no error and an empty cache of that size
\* (Len() == 0), with p == 0 for the ARC cache.
C13_Construct ==
    /\ plast.op = "New" =>
          IF plast.key <= 0
          THEN ~plast.ok /\ lru = NilCache
          ELSE /\ plast.ok
               /\ lru.size = plast.key
               /\ Cache_Len(lru) = 0
               /\ lru.items = {}
    /\ last.op = "NewARC" =>
          IF last.key <= 0
          THEN ~last.ok /\ Cache = NilARC
          ELSE /\ last.ok
               /\ size = last.key
               /\ ArcLen(Cache) = 0
               /\ t1 = <<>> /\ t2 = <<>> /\ b1 = <<>> /\ b2 = <<>>
               /\ p = 0

\* both constructors have refused the size 0
C13_Witness ==
    /\ plast.op = "New" /\ plast.key = 0 /\ ~plast.ok
    /\ last.op = "NewARC" /\ last.key = 0 /\ ~last.ok

\* C14: for the Cache that New(size) returns, after any sequence of Add and Get,
\* Len() is the smaller of size and the number of distinct keys ever added,
\* and the keys of the items map are exactly the keys of the eviction list,
\* each once.
Added == {touched[i] : i \in DOMAIN touched}

Smaller(a, b) == IF a <= b THEN a ELSE b

C14_LenMin ==
    lru # NilCache =>
       /\ Cache_Len(lru) = Smaller(lru.size, Cardinality(Added))
       /\ lru.items = ListKeys(lru.evictList)
       /\ Cardinality(lru.items) = Len(lru.evictList)
       /\ plast.op = "Len" => plast.ret = Smaller(lru.size, Cardinality(Added))

\* Len() has returned size on a Cache that more than size distinct keys were
\* added to
C14_Witness ==
    /\ plast.op = "Len"
    /\ plast.ret = lru.size
    /\ Cardinality(Added) > lru.size

\* C15: in every reachable state of the ARC cache, 0 <= p <= size.
C15_PRange == 0 <= p /\ p <= size

\* an Add of a B1 ghost has raised p to size, on a cache of size above 1
C15_Witness == last.op = "Add" /\ last.where = "b1" /\ p = size /\ size > 1

\* C16: p changes on ghost hits only.  An Add of a key in B1 sets p to
\* min(size, p + max(1, |B2| div |B1|)) and an Add of a key in B2 sets it to
\* max(0, p - max(1, |B1| div |B2|)), with the lengths of before the call; an
\* Add of a key in T1, in T2 or in no list, and Get, Remove, Purge, Contains,
\* Peek, Len and Keys leave p as it was.
Larger(a, b) == IF a >= b THEN a ELSE b

DropOldest(l) == IF l = <<>> THEN l ELSE SubSeq(l, 1, Len(l) - 1)

\* the Add step calls replace
CallsReplace ==
    /\ last'.op = "Add"
    /\ \/ last'.where \in {"b1", "b2"}
       \/ last'.where = "none" /\ Evictions(Cache) \in {"b1_oldest", "b2_oldest", "replace"}

C17_Replace ==
    [][CallsReplace =>
          LET k == last'.key
              v == last'.value
              fromT1 == /\ Len(t1) > 0
                        /\ \/ Len(t1) > p'
                           \/ Len(t1) = p' /\ k \in KeysOf(b2)
              rt1 == IF fromT1 THEN DropOldest(t1) ELSE t1
              rt2 == IF fromT1 THEN t2 ELSE DropOldest(t2)
          IN /\ last'.where = "b2" => k \in KeysOf(b2)
             /\ fromT1 => t1[Len(t1)].key \in KeysOf(b1')
             /\ IF last'.where = "none"
                THEN t1' = LRU_Add(rt1, k, v, size).list /\ t2' = rt2
                ELSE t1' = rt1 /\ t2' = LRU_Add(rt2, k, v, size).list]_vars

\* the Add of the B2 ghost 1 has found |T1| == p == 1 and evicted key 3 from T1
C17_Witness ==
    /\ hist.on /\ hist.ops = TieBreak
    /\ last.op = "Add" /\ last.where = "b2"
    /\ p = 1
    /\ t1 = <<>>
    /\ KeysOf(b1) = {3}
    /\ KeysOf(t2) = {1, 2}

\* C18, as stated: only an Add that pushes T1 or T2 above its capacity invokes
\* the eviction callback, and remove(key), removeOldest() and purge() do not;
\* so a call made while neither T1 nor T2 is full puts no key in B1 or B2.
C18_OnlyOverflow ==
    [][(Len(t1) < size /\ Len(t2) < size) =>
          KeysOf(b1') \subseteq KeysOf(b1) /\ KeysOf(b2') \subseteq KeysOf(b2)]_vars

\* C18, amended: remove(key) and purge() on T1 and T2 do not invoke the
\* eviction callback, so Remove, Purge, the promotion of a T1 hit and the
\* read-only calls put no key in B1; removeOldest() does invoke it, as the
\* eviction of an Add above capacity does: every entry that an Add or a Get takes
\* out of T1 or T2, other than the entry of its own key, is a ghost in B1 or
\* B2 afterwards.
C18_Callbacks ==
    [][LET k == last'.key
       IN /\ last'.op \in {"Remove", "Purge", "Peek", "Contains", "Len", "Keys"} =>
                KeysOf(b1') \subseteq KeysOf(b1) /\ KeysOf(b2') \subseteq KeysOf(b2)
          /\ last'.op = "Get" => b1' = b1
          /\ last'.op = "Add" /\ last'.where = "t1" => b1' = b1
          /\ last'.op \in {"Add", "Get"} =>
                /\ \A j \in (KeysOf(t1) \ KeysOf(t1')) \ {k} : j \in KeysOf(b1')
                /\ \A j \in (KeysOf(t2) \ KeysOf(t2')) \ {k} : j \in KeysOf(b2')]_vars

\* Add(3) of the end-to-end scenario has returned: replace took key 2 out of a
\* T1 that was not full, and key 2 is a ghost in B1
C18_Witness ==
    /\ hist.on /\ hist.ops = SubSeq(EndToEnd, 1, 4)
    /\ last.op = "Add" /\ last.where = "none"
    /\ KeysOf(t1) = {3}
    /\ KeysOf(t2) = {1}
    /\ KeysOf(b1) = {2}

\* C19: on the Cache of lru.go, an Add of a new key that pushes the length
\* above size removes exactly one entry, the least recently touched one, where
\* an Add (insert or update) and a Get hit touch a key; the new key is never
\* the one removed.  An Add of an existing key overwrites its value and makes
\* it the most recent entry, and removes nothing.
\* the key of `present` that was touched longest ago
Oldest(present) ==
    LET order == SelectSeq(touched, LAMBDA j : j \in present)
    IN order[Len(order)]

C19_EvictOrder ==
    [][plast'.op = "Add" /\ plainv' # plainv =>
          LET k == plast'.key
              v == plast'.value
              present == ListKeys(lru.evictList)
              after == ListKeys(lru'.evictList)
          IN /\ lru'.evictList[1] = entry(k, v)
             /\ \A j \in after \ {k} : ValueOf(lru'.evictList, j) = ValueOf(lru.evictList, j)
             /\ IF plast'.had
                THEN after = present
                ELSE IF Len(lru.evictList) = lru.size
                     THEN /\ after = (present \ {Oldest(present)}) \cup {k}
                          /\ Oldest(present) # k
                          /\ Len(lru'.evictList) = lru.size
                     ELSE after = present \cup {k}]_vars

\* an Add of a new key to a full Cache of size above 1 has returned
C19_Witness ==
    /\ plast.op = "Add" /\ ~plast.had
    /\ Len(touched) > lru.size
    /\ lru.size > 1

\* C20: when Add(k, v) returns, k is live (in T1 or T2 and in no ghost list)
\* and Peek(k) returns (v, found): the evictions made inside the Add never
\* remove k.  A key added on a ghost hit is in T2, a key that was in no list
\* is in T1.
C20_ReadYourWrite ==
    last.op = "Add" =>
       /\ Peek(Cache, last.key).ok
       /\ Peek(Cache, last.key).value = last.value
       /\ Contains(Cache, last.key).ok
       /\ ListsOf(Cache, last.key) \in {{"t1"}, {"t2"}}
       /\ last.where \in {"b1", "b2"} => ListsOf(Cache, last.key) = {"t2"}
       /\ last.where = "none" => ListsOf(Cache, last.key) = {"t1"}

\* an Add of a new key to a cache with T1 full has returned: the Add evicted,
\* and the key is in T1
C20_Witness ==
    /\ last.op = "Add" /\ last.where = "none"
    /\ LRU_Peek(t1, last.key) = [value |-> last.value, ok |-> TRUE]
    /\ Len(t1) = size
    /\ b1 # <<>>

====
